---- MODULE Spec2Model ----
(***************************************************************************)
(* A model of the chat examples of openai-agent-examples:                  *)
(*   src/6_simple_chat/main.py            command-line chat                *)
(*   src/7_simple_chat_with_apis/main.py  command-line chat with API tools *)
(*   src/8_simple_chat_with_gradio/main.py  Gradio chat with !register     *)
(*                                                                         *)
(* Strings are sequences of tokens.  A token stands for a fixed piece of   *)
(* text; the tokens are chosen so that no token's text overlaps another's. *)
(***************************************************************************)
EXTENDS Integers, Sequences, FiniteSets, TLC

VARIABLES
    chat_history,      \* ctx.chat_history: sequence of [role, content]
    agents,            \* the triage Agent objects created so far (index = identity)
    triage_agent,      \* the variable triage_agent: index of the current object
    custom_api_tools,  \* keys of the module-level dict custom_api_tools
    calls,             \* one record per handler call / per chat loop
    reply,             \* what the last finished call gave back to its caller
    window             \* last result of a direct get_history_text(k) call

vars == <<chat_history, agents, triage_agent, custom_api_tools, calls, reply, window>>

(***************************************************************************)
(* Bounds of the model.                                                    *)
(***************************************************************************)
NumCalls == 2        \* concurrent message_handler calls
MaxHistory == 4      \* entries of chat_history (Gradio specification)
MaxAgents == 2       \* triage Agent objects (1 + number of !register commands)
MaxCliHistory == 7   \* entries of chat_history (command-line specification)
MaxWindowHistory == 3 \* entries of chat_history (get_history_text specification)
MaxK == 4            \* largest max_messages tried
MaxSerialAgents == 4 \* triage Agent objects (one turn at a time specification)

(***************************************************************************)
(* Tokens.                                                                 *)
(***************************************************************************)
LB == "{"
RB == "}"
Inner == "{CHAT_HISTORY}"
\* the text {{CHAT_HISTORY}}: "{" then "{CHAT_HISTORY}" then "}"
Placeholder == <<LB, Inner, RB>>
NL == "\n"
WS == "        "
HeaderText == "CHAT HISTORY:"
UserLabel == "User: "
SystemLabel == "System: "

DefaultMaxMessages == 5

(***************************************************************************)
(* str.replace(old, new): every non-overlapping occurrence of old, found   *)
(* left to right, becomes new; an empty old matches before every element   *)
(* and at the end.                                                         *)
(***************************************************************************)
IsAt(s, old, i) ==
    /\ i + Len(old) - 1 <= Len(s)
    /\ SubSeq(s, i, i + Len(old) - 1) = old

RECURSIVE ReplaceFrom(_, _, _, _)
ReplaceFrom(s, old, new, i) ==
    IF i > Len(s) THEN <<>>
    ELSE IF IsAt(s, old, i) THEN new \o ReplaceFrom(s, old, new, i + Len(old))
    ELSE <<s[i]>> \o ReplaceFrom(s, old, new, i + 1)

RECURSIVE Interleave(_, _, _)
Interleave(s, new, i) ==
    IF i > Len(s) THEN new
    ELSE new \o <<s[i]>> \o Interleave(s, new, i + 1)

Replace(s, old, new) ==
    IF old = <<>> THEN Interleave(s, new, 1) ELSE ReplaceFrom(s, old, new, 1)

Contains(s, old) == \E i \in 1..Len(s) : IsAt(s, old, i)

(***************************************************************************)
(* ChatContext.                                                            *)
(***************************************************************************)
Entry(role, content) == [role |-> role, content |-> content]

\* mutant: the entry is inserted at the front
AddMessageFront(h, role, content) == <<Entry(role, content)>> \o h

AddMessage(h, role, content) == Append(h, Entry(role, content))

\* seq[start:] with Python's index normalisation
PySliceFrom(seq, start) ==
    LET n == Len(seq)
        lo == IF start < 0
              THEN (IF start + n < 0 THEN 0 ELSE start + n)
              ELSE (IF start > n THEN n ELSE start)
    IN  SubSeq(seq, lo + 1, n)

RoleDisplay(role) == IF role = "user" THEN UserLabel ELSE SystemLabel

RECURSIVE FormatEntries(_)
FormatEntries(es) ==
    IF es = <<>> THEN <<>>
    ELSE <<RoleDisplay(Head(es).role)>> \o Head(es).content \o <<NL>>
         \o FormatEntries(Tail(es))

\* mutant: no emptiness test, so an empty history renders as the bare header
GetHistoryTextHeaderAlways(h, max_messages) ==
    <<NL, HeaderText, NL>> \o FormatEntries(PySliceFrom(h, 0 - max_messages))

\* mutant: the emptiness test inverted, so a non-empty history renders as ""
GetHistoryTextBlank(h, max_messages) ==
    IF h # <<>> THEN <<>>
    ELSE <<NL, HeaderText, NL>> \o FormatEntries(PySliceFrom(h, 0 - max_messages))

GetHistoryText(h, max_messages) ==
    IF h = <<>> THEN <<>>
    ELSE <<NL, HeaderText, NL>> \o FormatEntries(PySliceFrom(h, 0 - max_messages))

(***************************************************************************)
(* The agents.  Only the triage agent is built with handoffs; the          *)
(* specialized agents are built with tools and no handoffs.                *)
(***************************************************************************)
Triage == "Triage Agent"

\* src/8: the agents create_agents builds, given the keys of custom_api_tools
SpecializedAgents8(tools) ==
    {"Weather Agent", "Joke Agent", "Bitcoin Agent", "Time Agent"}
    \cup (IF "cat_fact" \in tools THEN {"Cat Fact Agent"} ELSE {})

AgentDescriptions8(tools) ==
    <<"- Weather Agent: ...", NL, "- Joke Agent: ...", NL,
      "- Bitcoin Agent: ...", NL, "- Time Agent: ...">>
    \o (IF "cat_fact" \in tools THEN <<NL, "- Cat Fact Agent: ...">> ELSE <<>>)

\* the instructions are an f-string: {agent_instructions} is interpolated and
\* the doubled braces of {{CHAT_HISTORY}} come out as single braces
TriageInstructions8(tools) ==
    <<NL, WS, "You determine which agent to use ...", NL, WS, NL, WS,
      "USER PROFILE: ...", NL, WS, NL, "AVAILABLE AGENTS:", NL>>
    \o AgentDescriptions8(tools)
    \o <<NL, WS, NL, WS, "Respond directly ...", NL, WS, NL, WS,
         Inner, NL, WS>>

CreateAgents(tools) ==
    [instructions |-> TriageInstructions8(tools),
     handoffs |-> SpecializedAgents8(tools)]

\* src/6 and src/7: plain strings, the placeholder keeps its doubled braces
TriageInstructions6 ==
    <<NL, WS, "You determine which agent to use ...", NL, WS, NL, WS,
      "USER PROFILE: (6) ...", NL, WS, NL, WS,
      "Use the Bitcoin agent ...", NL, WS, NL, WS>>
    \o Placeholder \o <<NL, WS>>

TriageInstructions7 ==
    <<NL, WS, "You determine which agent to use ...", NL, WS, NL, WS,
      "USER PROFILE: ...", NL, WS, NL, WS,
      "AVAILABLE AGENTS: (7) ...", NL, WS, NL, WS,
      "Respond directly ...", NL, WS, NL, WS>>
    \o Placeholder \o <<NL, WS>>

TriageAgent6 ==
    [instructions |-> TriageInstructions6,
     handoffs |-> {"Bitcoin Agent", "Jokes Agent"}]

TriageAgent7 ==
    [instructions |-> TriageInstructions7,
     handoffs |-> {"Bitcoin Agent", "Jokes Agent", "Weather Agent",
                   "Time Agent", "News Agent"}]

\* mutant: the specialized agents are built to hand back to the triage agent
SpecializedHandoffsBack(name) == {Triage}

\* handoffs of an agent built without the handoffs argument
SpecializedHandoffs(name) == {}

\* the agents the agent `name` of the call's chain may hand off to
Handoffs(name, triage) ==
    IF name = Triage THEN triage.handoffs ELSE SpecializedHandoffs(name)

\* every specialized agent is built with exactly one tool, the triage agent with none
HasTools(name) == name # Triage

(***************************************************************************)
(* !register: the JSON documents a command may carry, by what json.loads   *)
(* makes of them.  keys: the keys of an object, the items of a list, or    *)
(* the key names occurring in a string; type: the value under "type".      *)
(***************************************************************************)
NonString == "<a JSON number>"

Doc(kind, keys, type) == [kind |-> kind, keys |-> keys, type |-> type]

\* the example of the interface: {"name": "Cat Facts API", "type": "cat_fact"}
ExampleDoc == Doc("object", {"name", "type"}, "cat_fact")

RegisterDocs ==
    { ExampleDoc,
      Doc("object", {"name", "url", "type"}, "cat_fact"),
      Doc("object", {"name", "url", "type", "input_schema"}, "cat_fact"),
      Doc("object", {"name", "url", "type"}, "CAT_FACT"),
      Doc("object", {"url", "type", "input_schema"}, "cat_fact"),
      Doc("object", {"name", "url", "type", "input_schema"}, "dog_fact"),
      Doc("object", {"name", "url", "input_schema"}, ""),
      Doc("object", {"name", "url", "type"}, NonString),
      Doc("invalid", {}, ""),
      Doc("number", {}, ""),
      Doc("list", {"name", "url"}, ""),
      Doc("string", {"name", "url"}, "") }

Lower(t) == IF t = "CAT_FACT" THEN "cat_fact" ELSE t

Success == <<"Successfully registered '", "Cat Facts API", "' API tool">>
ErrFields == <<"Error: API configuration must include 'name' and 'url' fields">>
ErrUnsupported(t) == <<"Error: Unsupported API tool type '", t, "'. Currently supported types: cat_fact">>
ErrJson == <<"Error: Invalid JSON configuration">>
ErrOther == <<"Error registering API tool: ", "str(e)">>

IsErrorResult(r) == r # <<>> /\ r[1] \in {ErrFields[1], ErrUnsupported("")[1], ErrJson[1], ErrOther[1]}

\* mutant: only 'name' is validated
MissingName(doc) == "name" \notin doc.keys

\* the validation of the required fields
MissingRequired(doc) == "name" \notin doc.keys \/ "url" \notin doc.keys

\* how the body of the try statement ends: with a return (exc "none") or with
\* an exception, and the registry it leaves
Return(result, tools) == [exc |-> "none", result |-> result, tools |-> tools]
Raise(exc, tools) == [exc |-> exc, result |-> <<>>, tools |-> tools]

\* the body of the try statement.  json.loads raises JSONDecodeError on a
\* text that is not JSON; '"name" not in config' raises TypeError on a number;
\* config.get raises AttributeError on a list or a string, and .lower() on a
\* "type" that is not a string
RegisterTry(doc, tools) ==
    IF doc.kind = "invalid" THEN Raise("JSONDecodeError", tools)
    ELSE IF doc.kind = "number" THEN Raise("TypeError", tools)
    ELSE IF MissingRequired(doc) THEN Return(ErrFields, tools)
    ELSE IF doc.kind # "object" THEN Raise("AttributeError", tools)
    ELSE LET t == IF "type" \in doc.keys THEN doc.type ELSE ""
         IN  IF t = NonString THEN Raise("AttributeError", tools)
             ELSE IF Lower(t) = "cat_fact"
                  THEN Return(Success, tools \cup {"cat_fact"})
                  ELSE Return(ErrUnsupported(Lower(t)), tools)

\* mutant: a command that fails empties the registry
RegisterApiToolFromConfigForgets(doc, tools) ==
    LET b == RegisterTry(doc, tools)
    IN  IF b.exc = "none"
        THEN (IF b.result = Success THEN b ELSE Return(b.result, {}))
        ELSE IF b.exc = "JSONDecodeError" THEN Return(ErrJson, {})
        ELSE Return(ErrOther, {})

\* mutant: only 'except json.JSONDecodeError', every other exception leaves
\* the function
RegisterApiToolFromConfigJsonOnly(doc, tools) ==
    LET b == RegisterTry(doc, tools)
    IN  IF b.exc = "JSONDecodeError" THEN Return(ErrJson, b.tools) ELSE b

\* register_api_tool_from_config: the try statement with its two handlers;
\* 'except Exception' catches every exception the body raises
RegisterApiToolFromConfig(doc, tools) ==
    LET b == RegisterTry(doc, tools)
    IN  IF b.exc = "none" THEN b
        ELSE IF b.exc = "JSONDecodeError" THEN Return(ErrJson, b.tools)
        ELSE Return(ErrOther, b.tools)

(***************************************************************************)
(* Handler calls.  pc: idle, or running (suspended in Runner.run).  reply:  *)
(* what the caller of the last finished call got: a text (returned), an    *)
(* exception (raised) or, in the command-line chats, the end of the loop.  *)
(***************************************************************************)
IdleCall ==
    [pc |-> "idle", message |-> <<>>, agent |-> 0, history_text |-> <<>>,
     chain |-> <<>>]

\* request: the document of the !register command answered, NoDoc for a chat turn
NoDoc == Doc("none", {}, "")
NoReply == [kind |-> "none", text |-> <<>>, request |-> NoDoc]
Returned(text) == [kind |-> "returned", text |-> text, request |-> NoDoc]
Raised == [kind |-> "raised", text |-> <<>>, request |-> NoDoc]

Running == {c \in DOMAIN calls : calls[c].pc = "running"}

Current(c) == calls[c].chain[Len(calls[c].chain)]

\* mutant: the history is rendered before the user message is added
BeginRenderFirst(c, message, a) ==
    LET h == AddMessage(chat_history, "user", message)
        history_text == GetHistoryText(chat_history, DefaultMaxMessages)
    IN  /\ chat_history' = h
        /\ agents' = [agents EXCEPT ![a].instructions =
                          Replace(@, Placeholder, history_text)]
        /\ calls' = [calls EXCEPT ![c] =
                          [pc |-> "running", message |-> message, agent |-> a,
                           history_text |-> history_text, chain |-> <<Triage>>]]

\* process_message up to the await: add the user message, render, enter Runner.run
Begin(c, message, a) ==
    LET h == AddMessage(chat_history, "user", message)
        history_text == GetHistoryText(h, DefaultMaxMessages)
    IN  /\ chat_history' = h
        /\ agents' = [agents EXCEPT ![a].instructions =
                          Replace(@, Placeholder, history_text)]
        /\ calls' = [calls EXCEPT ![c] =
                          [pc |-> "running", message |-> message, agent |-> a,
                           history_text |-> history_text, chain |-> <<Triage>>]]

\* mutant: the placeholder is not put back
FinishNoRestore(c, response) ==
    /\ chat_history' = AddMessage(chat_history, "system", response)
    /\ agents' = agents
    /\ calls' = [calls EXCEPT ![c] = IdleCall]
    /\ reply' = Returned(response)

\* mutant: the restore step renders the history again instead of using the
\* text it put in
FinishRestoreFresh(c, response) ==
    LET a == calls[c].agent
        h == AddMessage(chat_history, "system", response)
    IN  /\ chat_history' = h
        /\ agents' = [agents EXCEPT ![a].instructions =
                          Replace(@, GetHistoryText(h, DefaultMaxMessages), Placeholder)]
        /\ calls' = [calls EXCEPT ![c] = IdleCall]
        /\ reply' = Returned(response)

\* process_message after the await: add the response, restore, return it
Finish(c, response) ==
    LET a == calls[c].agent
    IN  /\ chat_history' = AddMessage(chat_history, "system", response)
        /\ agents' = [agents EXCEPT ![a].instructions =
                          Replace(@, calls[c].history_text, Placeholder)]
        /\ calls' = [calls EXCEPT ![c] = IdleCall]
        /\ reply' = Returned(response)

(***************************************************************************)
(* Runner.run, as the program sees it: the engine works on the current     *)
(* agent of the chain and either hands off to one of its handoffs, calls   *)
(* one of its tools, produces the final output, or the run raises.         *)
(* The tools only read the context (its username): a tool call changes no  *)
(* state of the program, and its result stays inside the run.              *)
(***************************************************************************)
\* mutant: the run reads the handler's variable, not the agent it was given
RunnerHandoffCurrentTriage(c, target) ==
    /\ calls[c].pc = "running"
    /\ target \in Handoffs(Current(c), agents[triage_agent])
    /\ calls' = [calls EXCEPT ![c].chain = Append(@, target)]
    /\ UNCHANGED <<chat_history, agents, triage_agent, custom_api_tools, reply, window>>

RunnerHandoff(c, target) ==
    /\ calls[c].pc = "running"
    /\ target \in Handoffs(Current(c), agents[calls[c].agent])
    /\ calls' = [calls EXCEPT ![c].chain = Append(@, target)]
    /\ UNCHANGED <<chat_history, agents, triage_agent, custom_api_tools, reply, window>>

\* mutant: the tool's result is added to the history
RunnerToolCallRecords(c) ==
    /\ calls[c].pc = "running"
    /\ HasTools(Current(c))
    /\ chat_history' = AddMessage(chat_history, "tool", <<"result">>)
    /\ UNCHANGED <<agents, triage_agent, custom_api_tools, calls, reply, window>>

RunnerToolCall(c) ==
    /\ calls[c].pc = "running"
    /\ HasTools(Current(c))
    /\ UNCHANGED vars

\* the awaited Runner.run raises (or the task is cancelled): nothing after the
\* await runs and the exception leaves process_message and its callers
RunnerRaise(c) ==
    /\ calls[c].pc = "running"
    /\ calls' = [calls EXCEPT ![c] = IdleCall]
    /\ reply' = Raised
    /\ UNCHANGED <<chat_history, agents, triage_agent, custom_api_tools, window>>

RunnerFinal(c, response) ==
    /\ calls[c].pc = "running"
    /\ Finish(c, response)
    /\ UNCHANGED <<triage_agent, custom_api_tools, window>>

(***************************************************************************)
(* src/8: message_handler.                                                 *)
(***************************************************************************)
RegisterPrefix == "!register "

StartsWithRegister(message) == Len(message) >= 1 /\ message[1] = RegisterPrefix

ChatMessages == {<<"hi">>, Placeholder}
Responses == {<<"ok">>}

\* a new call takes the first idle record: which record holds a call is not
\* program state, so this loses no behaviour
Free(c) == calls[c].pc = "idle" /\ \A d \in DOMAIN calls : d < c => calls[d].pc # "idle"

\* room in the bounded history for this turn and for the turns in flight
Room(max) == Len(chat_history) + Cardinality(Running) + 2 <= max

MessageHandlerChat(c, message) ==
    /\ Free(c)
    /\ ~StartsWithRegister(message)
    /\ Room(MaxHistory)
    /\ Begin(c, message, triage_agent)
    /\ UNCHANGED <<triage_agent, custom_api_tools, reply, window>>

\* the !register branch; an exception out of register_api_tool_from_config
\* would leave the handler before the triage agent is rebuilt
RegisterCommand(doc) ==
    LET message == <<RegisterPrefix, doc>>
        config_json == message[2]
        r == RegisterApiToolFromConfig(config_json, custom_api_tools)
    IN  /\ StartsWithRegister(message)
        /\ custom_api_tools' = r.tools
        /\ IF r.exc = "none"
           THEN /\ agents' = Append(agents, CreateAgents(r.tools))
                /\ triage_agent' = Len(agents) + 1
                /\ reply' = [Returned(r.result) EXCEPT !.request = config_json]
           ELSE /\ UNCHANGED <<agents, triage_agent>>
                /\ reply' = [Raised EXCEPT !.request = config_json]
        /\ UNCHANGED <<chat_history, calls, window>>

MessageHandlerRegister(doc) ==
    /\ Len(agents) < MaxAgents
    /\ RegisterCommand(doc)

NoWindow == [k |-> 0 - 1, history |-> <<>>, text |-> <<>>]

Init ==
    /\ chat_history = <<>>
    /\ custom_api_tools = {}
    /\ agents = <<CreateAgents({})>>
    /\ triage_agent = 1
    /\ calls = [c \in 1..NumCalls |-> IdleCall]
    /\ reply = NoReply
    /\ window = NoWindow

\* every agent create_agents can build
AgentNames8 == {Triage} \cup SpecializedAgents8({"cat_fact"})

Next ==
    \/ \E c \in DOMAIN calls, message \in ChatMessages : MessageHandlerChat(c, message)
    \/ \E doc \in RegisterDocs : MessageHandlerRegister(doc)
    \/ \E c \in DOMAIN calls, target \in AgentNames8 : RunnerHandoff(c, target)
    \/ \E c \in DOMAIN calls : RunnerToolCall(c)
    \/ \E c \in DOMAIN calls : RunnerRaise(c)
    \/ \E c \in DOMAIN calls, response \in Responses : RunnerFinal(c, response)

Spec == Init /\ [][Next]_vars

(***************************************************************************)
(* src/8 with one chat turn at a time (the user waits for each answer) and *)
(* several !register commands, sent at any moment.                         *)
(***************************************************************************)
SerialRegister(doc) ==
    /\ Len(agents) < MaxSerialAgents
    /\ RegisterCommand(doc)

SerialInit ==
    /\ chat_history = <<>>
    /\ custom_api_tools = {}
    /\ agents = <<CreateAgents({})>>
    /\ triage_agent = 1
    /\ calls = [c \in {1} |-> IdleCall]
    /\ reply = NoReply
    /\ window = NoWindow

SerialNext ==
    \/ \E c \in DOMAIN calls, message \in ChatMessages : MessageHandlerChat(c, message)
    \/ \E doc \in RegisterDocs : SerialRegister(doc)
    \/ \E c \in DOMAIN calls, target \in AgentNames8 : RunnerHandoff(c, target)
    \/ \E c \in DOMAIN calls : RunnerToolCall(c)
    \/ \E c \in DOMAIN calls : RunnerRaise(c)
    \/ \E c \in DOMAIN calls, response \in Responses : RunnerFinal(c, response)

SpecSerial == SerialInit /\ [][SerialNext]_vars

(***************************************************************************)
(* src/6 and src/7: the command-line chat loop.  One record of calls holds *)
(* the loop's turn; an exception out of Runner.run leaves main, and the    *)
(* words exit, bye and quit (in any case) end the loop.                    *)
(***************************************************************************)
Exited == [kind |-> "exited", text |-> <<>>, request |-> NoDoc]

LowerInput(user_input) ==
    IF user_input \in {<<"EXIT">>, <<"Exit">>} THEN <<"exit">> ELSE user_input

IsExitWord(user_input) == LowerInput(user_input) \in {<<"exit">>, <<"bye">>, <<"quit">>}

\* a line typed at the prompt: it may hold the placeholder, the header of the
\* history block or text of the template, and no line break
CliInputs ==
    {<<"hi">>, Placeholder, <<Inner>>, <<HeaderText>>,
     <<"You determine which agent to use ...">>, <<"quit">>, <<"Exit">>}

\* a final output may hold anything, line breaks included
CliResponses == {<<"ok">>, <<NL>> \o Placeholder \o <<NL, HeaderText, NL>>}

CliAgentNames == {Triage} \cup TriageAgent6.handoffs \cup TriageAgent7.handoffs

AtPrompt(c) == calls[c].pc = "idle" /\ reply.kind \notin {"raised", "exited"}

CliExit(c, user_input) ==
    /\ AtPrompt(c)
    /\ IsExitWord(user_input)
    /\ reply' = Exited
    /\ UNCHANGED <<chat_history, agents, triage_agent, custom_api_tools, calls, window>>

CliTurn(c, user_input) ==
    /\ AtPrompt(c)
    /\ ~IsExitWord(user_input)
    /\ Room(MaxCliHistory)
    /\ Begin(c, user_input, triage_agent)
    /\ UNCHANGED <<triage_agent, custom_api_tools, reply, window>>

CliInit ==
    /\ chat_history = <<>>
    /\ custom_api_tools = {}
    /\ agents \in {<<TriageAgent6>>, <<TriageAgent7>>}
    /\ triage_agent = 1
    /\ calls = [c \in {1} |-> IdleCall]
    /\ reply = NoReply
    /\ window = NoWindow

CliNext ==
    \/ \E c \in DOMAIN calls, user_input \in CliInputs : CliTurn(c, user_input)
    \/ \E c \in DOMAIN calls, user_input \in CliInputs : CliExit(c, user_input)
    \/ \E c \in DOMAIN calls, target \in CliAgentNames : RunnerHandoff(c, target)
    \/ \E c \in DOMAIN calls : RunnerToolCall(c)
    \/ \E c \in DOMAIN calls : RunnerRaise(c)
    \/ \E c \in DOMAIN calls, response \in CliResponses : RunnerFinal(c, response)

SpecCli == CliInit /\ [][CliNext]_vars

(***************************************************************************)
(* ChatContext on its own: add_message and get_history_text(max_messages)  *)
(* called directly, with any role, content and window size.                *)
(***************************************************************************)
WindowRoles == {"user", "system"}
WindowContents == {<<"a">>, <<"b">>}

WindowAddMessage(role, content) ==
    /\ Len(chat_history) < MaxWindowHistory
    /\ chat_history' = AddMessage(chat_history, role, content)
    /\ UNCHANGED <<agents, triage_agent, custom_api_tools, calls, reply, window>>

WindowGetHistoryText(k) ==
    /\ window' = [k |-> k, history |-> chat_history,
                  text |-> GetHistoryText(chat_history, k)]
    /\ UNCHANGED <<chat_history, agents, triage_agent, custom_api_tools, calls, reply>>

WindowInit ==
    /\ chat_history = <<>>
    /\ custom_api_tools = {}
    /\ agents = <<TriageAgent6>>
    /\ triage_agent = 1
    /\ calls = [c \in {1} |-> IdleCall]
    /\ reply = NoReply
    /\ window = NoWindow

WindowNext ==
    \/ \E role \in WindowRoles, content \in WindowContents : WindowAddMessage(role, content)
    \/ \E k \in 0..MaxK : WindowGetHistoryText(k)

SpecWindow == WindowInit /\ [][WindowNext]_vars

(***************************************************************************)
(* The claims.                                                             *)
(***************************************************************************)
Min(a, b) == IF a <= b THEN a ELSE b

\* the last n entries of h, in their order
LastEntries(h, n) == SubSeq(h, Len(h) - n + 1, Len(h))

\* the rendering of exactly the entries es of a non-empty history
RenderingOf(es) == <<NL, HeaderText, NL>> \o FormatEntries(es)

\* C1: for every history and every k >= 0, get_history_text(k) renders exactly
\* the last min(k, len(history)) entries in their order (nothing for an empty
\* history) and leaves chat_history unchanged.
C1_WindowIsLastMinK ==
    window.k >= 0 =>
        /\ window.text =
               IF window.history = <<>> THEN <<>>
               ELSE RenderingOf(LastEntries(window.history,
                                            Min(window.k, Len(window.history))))
        /\ window.history = <<>> \/ IsAt(chat_history, window.history, 1)

\* the same for k >= 1 only
C1_WindowIsLastMinKPositive == window.k >= 1 => C1_WindowIsLastMinK

TurnStarts(c) == calls[c].pc = "idle" /\ calls'[c].pc = "running"
TurnCompletes(c) ==
    calls[c].pc = "running" /\ calls'[c].pc = "idle" /\ reply'.kind = "returned"

\* C2: a chat turn adds exactly two entries to the history: when it starts, a
\* user entry holding the input; when it completes, a system entry holding the
\* final response; no other step of a turn (handoff, tool call) adds anything.
C2_TurnAddsUserThenSystem ==
    [][ /\ \A c \in DOMAIN calls :
              TurnStarts(c) =>
                  chat_history' = Append(chat_history, Entry("user", calls'[c].message))
        /\ \A c \in DOMAIN calls :
              TurnCompletes(c) =>
                  chat_history' = Append(chat_history, Entry("system", reply'.text))
        /\ chat_history' # chat_history =>
              \E c \in DOMAIN calls : TurnStarts(c) \/ TurnCompletes(c) ]_vars

\* a turn whose input was the placeholder text has completed: the history is its two entries
C2_TurnCompleted ==
    /\ reply.kind = "returned"
    /\ reply.request = NoDoc
    /\ chat_history = <<Entry("user", Placeholder), Entry("system", reply.text)>>

CountRole(role) ==
    Cardinality({i \in 1..Len(chat_history) : chat_history[i].role = role})

\* C3: when a turn fails or is cancelled at the awaited Runner.run, the history
\* holds both its user message and its response or neither: once no turn is in
\* flight, every user entry has its response.
C3_NoPartialCommit ==
    Running = {} => CountRole("user") = CountRole("system")

\* C4: under concurrent message_handler calls the entries of different turns do
\* not interleave: as long as no turn has failed, every user entry but a last
\* one still in flight is immediately followed by a system entry.
C4_NoInterleavedEntries ==
    CountRole("user") = CountRole("system") + Cardinality(Running) =>
        \A i \in 1..(Len(chat_history) - 1) :
            chat_history[i].role = "user" => chat_history[i + 1].role = "system"

CliTemplates == {TriageInstructions6, TriageInstructions7}

C6_NoPlaceholderNoChange ==
    [][ \A a \in DOMAIN agents :
            ~Contains(agents[a].instructions, Placeholder) =>
                agents'[a].instructions = agents[a].instructions ]_vars

\* a turn whose input was the placeholder text has completed on the Gradio
\* triage agent, whose template has no placeholder
C6_TurnDoneTemplateKept ==
    /\ reply.kind = "returned"
    /\ reply.request = NoDoc
    /\ Len(chat_history) >= 2
    /\ chat_history[1] = Entry("user", Placeholder)
    /\ Len(agents) = 1
    /\ ~Contains(agents[1].instructions, Placeholder)
    /\ agents[1].instructions = TriageInstructions8({})

RegisterStep == Len(agents') = Len(agents) + 1

Rejected ==
    /\ IsErrorResult(reply'.text)
    /\ custom_api_tools' = custom_api_tools
    /\ agents'[triage_agent'].handoffs = agents[triage_agent].handoffs

C8_ExampleRegistersCatFacts ==
    (reply.kind = "returned" /\ reply.request = ExampleDoc) =>
        /\ "cat_fact" \in custom_api_tools
        /\ "Cat Fact Agent" \in agents[triage_agent].handoffs

\* C9: a failed turn still gives its caller a text, never an exception.
C9_FailedTurnStillAnswers == reply.kind # "raised"

Range(f) == {f[i] : i \in DOMAIN f}

\* C10: the handoff chain of every turn has no agent twice and ends: it is the
\* triage agent, or the triage agent and one delegate, and a delegate has no
\* agent to hand off to.
C10_HandoffChainTerminates ==
    \A c \in Running :
        LET chain == calls[c].chain
        IN  /\ Cardinality(Range(chain)) = Len(chain)
            /\ Len(chain) <= 2
            /\ Len(chain) = 2 => Handoffs(Current(c), agents[calls[c].agent]) = {}

\* a turn started after a successful registration was handed off to the Cat Fact Agent
C10_HandedOffToCatFact ==
    \E c \in Running : calls[c].chain = <<Triage, "Cat Fact Agent">>

\* C11: a !register processed while a turn is suspended in Runner.run does not
\* disturb it: the registration leaves the record of every turn in flight and
\* the agent object it captured (instructions and delegates) as they were and
\* binds the handler's variable to a new object; a turn in flight hands off
\* only to delegates of the object it captured; a turn that starts captures
\* the object the handler's variable holds then.
C11_RegisterLeavesTurnsInFlight ==
    [][ /\ RegisterStep =>
              \A c \in Running :
                  /\ calls'[c] = calls[c]
                  /\ agents'[calls[c].agent] = agents[calls[c].agent]
                  /\ triage_agent' # calls[c].agent
        /\ \A c \in Running :
              (calls'[c].pc = "running" /\ calls'[c].chain # calls[c].chain) =>
                  /\ calls'[c].agent = calls[c].agent
                  /\ calls'[c].chain[Len(calls'[c].chain)] \in agents[calls[c].agent].handoffs
        /\ \A c \in DOMAIN calls :
              TurnStarts(c) => calls'[c].agent = triage_agent ]_vars

\* a turn that started before a successful registration is still in flight on
\* the object it captured, handed off to one of its four delegates, while a
\* turn started after the registration runs on the rebuilt object
C11_TurnsOnOldAndNewAgent ==
    /\ "cat_fact" \in custom_api_tools
    /\ \E c \in Running :
           /\ calls[c].agent # triage_agent
           /\ "Cat Fact Agent" \notin agents[calls[c].agent].handoffs
           /\ Len(calls[c].chain) = 2
    /\ \E d \in Running :
           /\ calls[d].agent = triage_agent
           /\ "Cat Fact Agent" \in agents[calls[d].agent].handoffs

\* C12: the history is append-only: every step of a turn, of a !register
\* command or of a tool call leaves the history it found as a prefix of the
\* history it leaves, so every earlier history is a prefix of every later one.
C12_HistoryAppendOnly ==
    [][ /\ Len(chat_history) <= Len(chat_history')
        /\ SubSeq(chat_history', 1, Len(chat_history)) = chat_history ]_vars

\* the history holds a completed turn and the user entry of a turn in flight,
\* and a !register command has been processed
C12_HistoryGrewAcrossRegister ==
    /\ Len(chat_history) >= 3
    /\ chat_history[2].role = "system"
    /\ Running # {}
    /\ Len(agents) >= 2

\* C13: when the history is empty, get_history_text returns the empty string
\* for every window size, so no history block is rendered: replacing the
\* placeholder of the template by this text removes the placeholder, adds no
\* 'CHAT HISTORY:' header and leaves the rest of the template as it is.
C13_EmptyHistoryRendersNothing ==
    (window.k >= 0 /\ window.history = <<>>) =>
        /\ window.text = <<>>
        /\ \A t \in CliTemplates \cup {TriageInstructions8({})} :
               LET rendered == Replace(t, Placeholder, window.text)
               IN  /\ ~Contains(rendered, <<HeaderText>>)
                   /\ ~Contains(rendered, Placeholder)
                   /\ Len(rendered) = Len(t) - (IF Contains(t, Placeholder)
                                                THEN Len(Placeholder) ELSE 0)

\* get_history_text was called with the largest window on a context nothing
\* had been added to
C13_CalledOnEmptyHistory ==
    /\ window.k = MaxK
    /\ window.history = <<>>
    /\ chat_history = <<>>

CliTriageAgents == {TriageAgent6, TriageAgent7}

\* C14: in the command-line chats a turn starts on the original triage agent
\* (the template with its placeholder), runs on the same agent with the
\* placeholder replaced by the history text, and when it completes normally
\* the instructions are exactly the value they had before the turn, whatever
\* the inputs and responses in the history contain.
C14_TurnRestoresInstructions ==
    [][ \A c \in DOMAIN calls :
            LET Rendered(t) ==
                    [t EXCEPT !.instructions =
                         Replace(@, Placeholder, calls'[c].history_text)]
                RenderedNow(t) ==
                    [t EXCEPT !.instructions =
                         Replace(@, Placeholder, calls[c].history_text)]
            IN  /\ TurnStarts(c) =>
                      /\ agents[calls'[c].agent] \in CliTriageAgents
                      /\ agents'[calls'[c].agent] = Rendered(agents[calls'[c].agent])
                /\ TurnCompletes(c) =>
                      \E t \in CliTriageAgents :
                          /\ agents[calls[c].agent] = RenderedNow(t)
                          /\ agents'[calls[c].agent] = t ]_vars

\* three turns have completed whose inputs were the placeholder, the header of
\* the history block and a line of the template
C14_ThreeHostileTurnsDone ==
    /\ Running = {}
    /\ reply.kind = "returned"
    /\ agents[triage_agent] \in CliTriageAgents
    /\ \A m \in {Placeholder, <<HeaderText>>, <<"You determine which agent to use ...">>} :
           \E i \in 1..Len(chat_history) : chat_history[i] = Entry("user", m)

\* C15: in the Gradio app, while Runner.run executes for a turn, the
\* instructions of the triage agent the turn runs on contain the history block
\* get_history_text returned for the turn, which holds the turn's user message.
C15_InstructionsHoldHistoryBlock ==
    \A c \in Running :
        /\ Contains(calls[c].history_text, <<UserLabel>> \o calls[c].message \o <<NL>>)
        /\ Contains(agents[calls[c].agent].instructions, calls[c].history_text)

\* C16: register_api_tool_from_config never raises: every !register command,
\* whatever its text parses to, is answered with a message (an error message
\* or the success message), never with an exception; a command answered with
\* an error message leaves custom_api_tools as it was, and the registry
\* changes only in a step answered with the success message.
C16_RegisterAlwaysReturnsMessage ==
    [][ /\ reply'.request # NoDoc =>
              /\ reply'.kind = "returned"
              /\ IsErrorResult(reply'.text) \/ reply'.text = Success
        /\ (reply'.request # NoDoc /\ reply' # reply /\ IsErrorResult(reply'.text)) =>
              custom_api_tools' = custom_api_tools
        /\ (RegisterStep /\ IsErrorResult(reply'.text)) =>
              custom_api_tools' = custom_api_tools
        /\ custom_api_tools' # custom_api_tools =>
              (RegisterStep /\ reply'.text = Success) ]_vars

\* after a successful registration, a command whose text is a JSON number
\* (the 'in' test raises TypeError) was answered with the generic error
\* message and the registry still holds the cat fact tool
C16_NumberRejectedRegistryKept ==
    /\ reply.kind = "returned"
    /\ reply.request.kind = "number"
    /\ reply.text = ErrOther
    /\ custom_api_tools = {"cat_fact"}
    /\ Len(agents) = 3

FourAgents == {"Weather Agent", "Joke Agent", "Bitcoin Agent", "Time Agent"}

\* the delegates of the agent the next chat turn will be given
NextTurnDelegates == agents[triage_agent].handoffs

\* C17: the triage agent of the next chat turn has the Cat Fact Agent among
\* its delegates iff some earlier !register command returned success, and has
\* exactly the four built-in agents otherwise: before any command the
\* delegates are the four; a command answered with success makes them the four
\* and the Cat Fact Agent; a command answered with an error, and every step of
\* a chat turn, leaves them as they were; a turn that starts is given this agent.
C17_CatFactIffRegistered ==
    [][ /\ Len(agents) = 1 => NextTurnDelegates = FourAgents
        /\ NextTurnDelegates \in {FourAgents, FourAgents \cup {"Cat Fact Agent"}}
        /\ IF RegisterStep
           THEN IF reply'.text = Success
                THEN NextTurnDelegates' = FourAgents \cup {"Cat Fact Agent"}
                ELSE NextTurnDelegates' = NextTurnDelegates
           ELSE NextTurnDelegates' = NextTurnDelegates
        /\ \A c \in DOMAIN calls :
              TurnStarts(c) =>
                  /\ calls'[c].agent = triage_agent
                  /\ Handoffs(Triage, agents'[calls'[c].agent]) = NextTurnDelegates ]_vars

\* a successful registration was followed by a failed one, and the turn
\* started after both was handed off to the Cat Fact Agent
C17_CatFactKeptAfterFailure ==
    /\ Len(agents) = 3
    /\ IsErrorResult(reply.text)
    /\ reply.request # NoDoc
    /\ \E c \in Running :
           /\ calls[c].agent = 3
           /\ calls[c].chain = <<Triage, "Cat Fact Agent">>

\* the line get_history_text renders for the user message of turn c
OwnLine(c) == <<UserLabel>> \o calls[c].message \o <<NL>>

EndsWith(s, tail) == Len(tail) <= Len(s) /\ IsAt(s, tail, Len(s) - Len(tail) + 1)

\* C18: a turn renders its instructions right after adding its user message:
\* the history is then non-empty with that message as its last entry, so the
\* history text of every turn in flight, which the restore step will use, is
\* not the empty string: it is the header followed by entries, the last of
\* them the turn's own user line.
C18_RenderedHistoryEndsWithOwnMessage ==
    \A c \in Running :
        /\ chat_history # <<>>
        /\ calls[c].history_text # <<>>
        /\ IsAt(calls[c].history_text, <<NL, HeaderText, NL>>, 1)
        /\ EndsWith(calls[c].history_text, OwnLine(c))

\* two turns are in flight; the later one rendered the earlier one's user
\* message before its own
C18_SecondTurnRenderedBoth ==
    /\ Cardinality(Running) = 2
    /\ \E c \in Running :
           Len(calls[c].history_text) > 3 + Len(OwnLine(c))

====
